---- MODULE Spec2Model ----
(***************************************************************************)
(* eStyler / keyStyler.py: a pynput listener thread (on_press, on_release)  *)
(* appends key transitions to the shared list key_events while the main     *)
(* thread polls it every hop seconds over a sliding window of width         *)
(* seconds.  The two threads share key_events, last_event_time and          *)
(* stop_event without any lock; every shared read or write below is a step  *)
(* of its own so that all interleavings of the two threads are explored.    *)
(* Time is a discrete clock (time.time() / datetime.now()) in seconds that  *)
(* never runs backwards; it advances independently of both threads.        *)
(***************************************************************************)
EXTENDS Integers, Sequences, FiniteSets, TLC

\* ---------------------------------------------------------------- bounds
MaxTime == 4
MaxEvents == 2
\* accepted transitions of a session explored under the fairness conditions
MaxLiveEvents == 1
\* samples a session started with a hop of zero seconds is followed for
MaxResults == 3
\* length and latest timestamp of the slices compute_metrics is called on
MaxSliceLen == 3
MaxSliceTime == 2

\* ---------------------------------------------------------------- inputs
\* --width / --hop values of a session (positive integers)
Widths == {2, 4}
Hops == {2}

\* <<--width, --hop>> pairs with a value that is not positive; argparse
\* (type=int) accepts each of them
InvalidParams == {<<0, 2>>, <<-1, 2>>, <<4, 0>>, <<4, -1>>}

\* callbacks the event source makes, as <<key, kind>>: an ordinary key going
\* down and up, modifiers, and the termination key going up
Inputs == {<<"a", "press">>, <<"a", "release">>, <<"shift", "press">>,
           <<"ctrl_r", "release">>, <<"esc", "release">>}

\* ---------------------------------------------------------------- constants
IGNORED_KEYS == {"shift", "shift_r", "alt", "alt_r", "ctrl", "ctrl_r"}
ERROR_KEYS == {"backspace", "delete", "left", "right", "up", "down"}
PauseLimit == 3

\* Python's None where a timestamp is expected (last_event_time, press_time)
None == -1

\* the None that compute_metrics returns, and the absence of an output file
NoMetrics == [no_sample |-> TRUE]
NoArtifact == [written |-> FALSE, rows |-> <<>>]

VARIABLES
    clock,              \* time.time()
    width, hop,         \* arguments of main
    event_budget,       \* number of transitions the event source delivers
    key_events,         \* global list of {'key','event','time'}
    stop_event,         \* threading.Event
    last_event_time,    \* global, None until the first accepted transition
    listener_pc,        \* position of the listener thread
    pending,            \* key, kind and current_time of the running callback
    main_pc,            \* position of the main thread
    current_time,       \* main: local of the running tick
    window_events,      \* main: local of the running tick
    results,            \* main: list of emitted samples
    sleep_until,        \* main: end of the running time.sleep(hop)
    artifact,           \* rows written to keyboard_dynamics_<stamp>.csv
    emit_history,       \* history: per appended sample, the tick's current_time
                        \* and whether stop_event was already set
    sleeps_after_stop,  \* history: sleeps begun while stop_event was set
    gen_runs,           \* user_data_generator.py: the invocations of
                        \* generate_typing_data made so far, with their outcome
    metrics_call        \* a call of compute_metrics on its own: slice and result

vars == <<clock, width, hop, event_budget, key_events, stop_event, last_event_time,
          listener_pc, pending, main_pc, current_time, window_events,
          results, sleep_until, artifact, emit_history,
          sleeps_after_stop, gen_runs, metrics_call>>

shared == <<key_events, stop_event, last_event_time>>
listener_vars == <<listener_pc, pending>>
main_vars == <<main_pc, current_time, window_events, results, sleep_until,
               artifact, emit_history, sleeps_after_stop>>
\* what no step of a session changes: the arguments of main, the budget of
\* the event source, and the state of the offline programs
offline == <<gen_runs, metrics_call>>
params == <<width, hop, event_budget, offline>>

\* the locals dwell_times and flight_times of compute_metrics before its loop
NoSamples == [dwell_times |-> <<>>, flight_times |-> <<>>]

\* no call of compute_metrics on its own is in progress
NoCall == [pc |-> "none", slice |-> <<>>, result |-> NoMetrics,
           samples |-> NoSamples]

NoPending == [key |-> "", event |-> "", time |-> None]

\* ---------------------------------------------------------------- compute_metrics
Sum(s) ==
    LET RECURSIVE sum(_)
        sum(n) == IF n = 0 THEN 0 ELSE sum(n - 1) + s[n]
    IN sum(Len(s))

is_error_press_only(event) == event.key \in ERROR_KEYS /\ event.event = "press"

\* if event['key'] in ERROR_KEYS
is_error(event) == event.key \in ERROR_KEYS

duration_reversed(later, earlier) == earlier - later

\* event['time'] - press_time
duration(later, earlier) == later - earlier

press_time_cleared(press_time) == None

\* press_time after a release: the branch of 'release' leaves it as it is
press_time_after_release(press_time) == press_time

\* the loop of compute_metrics after the first n events of the slice
RECURSIVE walk(_, _)
walk(events, n) ==
    IF n = 0
    THEN [press_time |-> None, dwell_times |-> <<>>, flight_times |-> <<>>,
          error_count |-> 0]
    ELSE LET s == walk(events, n - 1)
             event == events[n]
             ec == IF is_error(event) THEN s.error_count + 1
                   ELSE s.error_count
         IN IF event.event = "press"
            THEN [press_time |-> event.time,
                  dwell_times |-> s.dwell_times,
                  flight_times |-> IF s.press_time # None
                                   THEN Append(s.flight_times,
                                               duration(event.time, s.press_time))
                                   ELSE s.flight_times,
                  error_count |-> ec]
            ELSE [press_time |-> press_time_after_release(s.press_time),
                  dwell_times |-> IF s.press_time # None
                                  THEN Append(s.dwell_times,
                                              duration(event.time, s.press_time))
                                  ELSE s.dwell_times,
                  flight_times |-> s.flight_times,
                  error_count |-> ec]

\* sum(xs) / len(xs) if xs else 0, kept as the exact fraction <<num, den>>
average(xs) == IF xs # <<>> THEN <<Sum(xs), Len(xs)>> ELSE <<0, 1>>

\* NoMetrics (None) for an empty slice, else the three metrics as exact fractions
compute_metrics(events) ==
    IF events = <<>>
    THEN NoMetrics
    ELSE LET s == walk(events, Len(events))
         IN [avg_dwell_time |-> average(s.dwell_times),
             avg_flight_time |-> average(s.flight_times),
             error_ratio |-> <<s.error_count, Len(events)>>]

\* slices compute_metrics is called on: every sequence of up to MaxSliceLen
\* transitions of an ordinary key and an error key, and one Backspace press
\* among nine transitions of an ordinary key
SliceEvents == [key : {"a", "backspace"}, event : {"press", "release"},
                time : 0..MaxSliceTime]

OneErrorInTen ==
    [i \in 1..10 |->
        IF i = 3 THEN [key |-> "backspace", event |-> "press", time |-> 1]
        ELSE [key |-> "a",
              event |-> IF i % 2 = 1 THEN "press" ELSE "release",
              time |-> i \div 4]]

Slices ==
    UNION {[1..n -> SliceEvents] : n \in 0..MaxSliceLen} \cup {OneErrorInTen}

\* ---------------------------------------------------------------- helpers of the threads
is_ignored_without_shift(key) == key \in IGNORED_KEYS \ {"shift"}
is_ignored(key) == key \in IGNORED_KEYS

\* on_release returns False for Escape, which stops the pynput listener
is_stop_key_never(key) == FALSE
is_stop_key(key) == key = "esc"

\* [event for event in key_events if window_start <= event['time'] <= current_time]
in_window(event, now, w) == now - w <= event.time /\ event.time <= now

select_window(events, now, w) ==
    SelectSeq(events, LAMBDA event : in_window(event, now, w))

decide_raises_unset(we, last) == last = None

\* current_time - last_event_time raises TypeError while last_event_time is
\* None; the test of window_events comes first and short-circuits
decide_raises(we, last) == we # <<>> /\ last = None

should_emit_strict(we, now, last) == we # <<>> /\ last # None /\ now - last < PauseLimit
should_emit_no_pause(we, now, last) == we # <<>> /\ last # None

\* window_events and (current_time - last_event_time <= 3)
should_emit(we, now, last) == we # <<>> /\ last # None /\ now - last <= PauseLimit

loop_continues_always(stop) == TRUE

\* while not stop_event.is_set()
loop_continues(stop) == ~stop

should_save_always(res) == TRUE

\* if results:
should_save(res) == res # <<>>

\* ---------------------------------------------------------------- user_data_generator.py
\* seconds are kept in units of 10^-5 s, the precision of round(x, 5), and
\* accuracy in tenths, so that the arithmetic of the generator is exact
Unit == 100000
AccDen == 10

\* np.random.seed(42)
Seed == 42
\* base_dwell_time = 0.060, base_flight_time = 0.107, in units
base_dwell_time == 6000
base_flight_time == 10700
\* standard deviations 0.005 and 0.05 of the two np.random.normal calls, in units
dwell_sd == 500
flight_sd == 5000

\* calls generate_typing_data(wpm, accuracy, num_words, window_size, hop_size)
\* as <<wpm, tenths of accuracy, num_words, window_size, hop_size>>: the call
\* at the end of the script, accuracy 1.0 and 1.2, and other speeds and lengths
GenInputs == {<<60, 7, 150, 5, 1>>, <<60, 10, 12, 5, 1>>, <<60, 12, 12, 2, 2>>,
              <<120, 4, 10, 2, 1>>, <<40, 9, 8, 5, 2>>, <<60, 5, 3, 5, 1>>,
              <<60, 0, 6, 2, 3>>, <<600, 5, 5, 2, 1>>}

Abs(x) == IF x < 0 THEN -x ELSE x

Min(S) == CHOOSE x \in S : \A y \in S : x <= y

\* int(n / d) for d # 0: the quotient truncated toward zero
trunc_div(n, d) ==
    IF (n >= 0) = (d > 0) THEN Abs(n) \div Abs(d) ELSE -(Abs(n) \div Abs(d))

\* round(n / d) to the nearest unit for d > 0, an exact half to the even unit
round_div(n, d) ==
    LET q == n \div d
        r == n % d
    IN IF 2 * r < d THEN q
       ELSE IF 2 * r > d THEN q + 1
       ELSE IF q % 2 = 0 THEN q ELSE q + 1

\* range(0, stop, step) for step # 0, as the sequence of its values
range(stop, step) ==
    LET count == IF step > 0
                 THEN IF stop > 0 THEN (stop - 1) \div step + 1 ELSE 0
                 ELSE IF stop < 0 THEN (-stop - 1) \div (-step) + 1 ELSE 0
    IN [k \in 1..count |-> (k - 1) * step]

\* the k-th standard normal variate drawn after np.random.seed(Seed), in
\* thousandths: a fixed number for each k
variate(k) == ((Seed * 7919 + k * 104729) % 6001) - 3000

\* round(np.random.normal(base * (60 / wpm), sd), 5) as the k-th draw
rounded_normal(base, wpm, sd, k) ==
    round_div(base * 60 * 1000 + sd * variate(k) * wpm, wpm * 1000)

\* typing_duration = int((num_words / wpm) * 60)
typing_duration(wpm, num_words) == trunc_div(60 * num_words, wpm)

\* int(total_intervals / (num_words * (1 - accuracy))) for a divisor that is
\* not zero
error_stride(total, num_words, acc) ==
    trunc_div(total * AccDen, num_words * (AccDen - acc))

\* the loop over range(total_intervals): interval i - 1 of Python is entry i
key_press_data(total, wpm, acc, error_intervals) ==
    [i \in 1..total |->
        [avg_dwell_time |-> rounded_normal(base_dwell_time, wpm, dwell_sd, 2 * i - 1),
         avg_flight_time |-> rounded_normal(base_flight_time, wpm, flight_sd, 2 * i),
         error |-> IF (i - 1) \in error_intervals THEN AccDen - acc ELSE 0]]

\* key_press_data[lo:hi] for 0 <= lo
slice(data, lo, hi) ==
    SubSeq(data, lo + 1, IF hi < Len(data) THEN hi ELSE Len(data))

window_starts_short(total, w, h) == range(total - w, h)

\* range(0, total_intervals - window_size + 1, hop_size)
window_starts(total, w, h) == range(total - w + 1, h)

\* the row appended for the window that starts at interval i
window_row(window_data, i, start) ==
    LET n == Len(window_data)
    IN [timestamp |-> start + i,
        avg_dwell_time |->
            round_div(Sum([k \in 1..n |-> window_data[k].avg_dwell_time]), n),
        avg_flight_time |->
            round_div(Sum([k \in 1..n |-> window_data[k].avg_flight_time]), n),
        error_ratio |->
            round_div(Sum([k \in 1..n |-> window_data[k].error]) * Unit, AccDen * n)]

\* the sliding-window loop: it ends at the first window shorter than window_size
sliding_window(data, total, w, h, start) ==
    LET starts == window_starts(total, w, h)
        short == {k \in DOMAIN starts :
                     Len(slice(data, starts[k], starts[k] + w)) < w}
        n == IF short = {} THEN Len(starts) ELSE Min(short) - 1
    IN [k \in 1..n |-> window_row(slice(data, starts[k], starts[k] + w),
                                  starts[k], start)]

\* the outcome of a call that raised: nothing is returned and no file is saved
raised(args, now, name, total, data) ==
    [args |-> args, start_time |-> now, error |-> name,
     typing_duration |-> total, stride |-> 0, error_intervals |-> {},
     key_press_data |-> data, rows |-> <<>>, saved |-> FALSE]

\* generate_typing_data called at time now (start_time = datetime.now()); the
\* stride field is 0 where no stride was computed
generate_typing_data(args, now) ==
    LET wpm == args[1]
        acc == args[2]
        num_words == args[3]
        w == args[4]
        h == args[5]
    IN IF wpm = 0
       THEN raised(args, now, "ZeroDivisionError", 0, <<>>)
       ELSE LET total == typing_duration(wpm, num_words)
            IN IF num_words * (AccDen - acc) = 0
               THEN raised(args, now, "ZeroDivisionError", total, <<>>)
               ELSE LET step == error_stride(total, num_words, acc)
                    IN IF step = 0
                       THEN raised(args, now, "ValueError", total, <<>>)
                       ELSE LET flagged == range(total, step)
                                error_intervals ==
                                    {flagged[k] : k \in DOMAIN flagged}
                                data == key_press_data(total, wpm, acc,
                                                       error_intervals)
                            IN IF h = 0
                               THEN raised(args, now, "ValueError", total, data)
                               ELSE [args |-> args, start_time |-> now,
                                     error |-> "none",
                                     typing_duration |-> total,
                                     stride |-> step,
                                     error_intervals |-> error_intervals,
                                     key_press_data |-> data,
                                     rows |-> sliding_window(data, total, w, h, now),
                                     saved |-> TRUE]

\* ---------------------------------------------------------------- initial state
\* the module globals and the locals of main before its first tick
Globals ==
    /\ clock = 0
    /\ key_events = <<>>
    /\ stop_event = FALSE
    /\ last_event_time = None
    /\ pending = NoPending
    /\ current_time = None
    /\ window_events = <<>>
    /\ results = <<>>
    /\ sleep_until = None
    /\ artifact = NoArtifact
    /\ emit_history = <<>>
    /\ sleeps_after_stop = 0

\* listener_thread.start() has returned and main is at the head of its loop
Launched ==
    /\ Globals
    /\ listener_pc = "starting"
    /\ main_pc = "check"
    /\ gen_runs = <<>>
    /\ metrics_call = NoCall

\* keyStyler.py is not running
NoSession ==
    /\ Globals
    /\ listener_pc = "off"
    /\ main_pc = "off"
    /\ width = None
    /\ hop = None
    /\ event_budget = 0

Start ==
    /\ Launched
    /\ width \in Widths
    /\ hop \in Hops

Init == Start /\ event_budget = MaxEvents

LiveInit == Start /\ event_budget = MaxLiveEvents

\* python keyStyler.py --width W --hop H with W <= 0 or H <= 0
InvalidInit ==
    /\ Launched
    /\ \E p \in InvalidParams : width = p[1] /\ hop = p[2]
    /\ event_budget = MaxLiveEvents

\* user_data_generator.py has not been run
GenInit ==
    /\ NoSession
    /\ gen_runs = <<>>
    /\ metrics_call = NoCall

\* compute_metrics(window_events) has been called on a slice
MetricsInit ==
    /\ NoSession
    /\ gen_runs = <<>>
    /\ \E s \in Slices :
           metrics_call = [pc |-> "called", slice |-> s, result |-> NoMetrics,
                           samples |-> NoSamples]

\* ---------------------------------------------------------------- time
\* the clock runs freely up to MaxTime and past it only to end a running sleep
Tick ==
    /\ \/ clock < MaxTime
       \/ main_pc = "sleeping" /\ clock < sleep_until
    /\ clock' = clock + 1
    /\ UNCHANGED <<params, shared, listener_vars, main_vars>>

\* ---------------------------------------------------------------- listener thread
\* keyboard.Listener(...) attaches to the event source
start_listener ==
    /\ listener_pc = "starting"
    /\ listener_pc' = "idle"
    /\ UNCHANGED <<clock, params, shared, pending, main_vars>>

\* keyboard.Listener(...) raises; start_listener prints the error and returns
start_listener_fails ==
    /\ listener_pc = "starting"
    /\ listener_pc' = "failed"
    /\ UNCHANGED <<clock, params, shared, pending, main_vars>>

\* the event source calls on_press(key) or on_release(key); for a key of
\* IGNORED_KEYS the callback is at its return, else current_time = time.time()
on_event(key, kind) ==
    /\ listener_pc = "idle"
    /\ IF is_ignored(key)
       THEN /\ pending' = [key |-> key, event |-> kind, time |-> None]
            /\ listener_pc' = "return"
       ELSE /\ Len(key_events) < event_budget
            /\ pending' = [key |-> key, event |-> kind, time |-> clock]
            /\ listener_pc' = "append"
    /\ UNCHANGED <<clock, params, shared, main_vars>>

\* if key in IGNORED_KEYS: return
on_event_return ==
    /\ listener_pc = "return"
    /\ pending' = NoPending
    /\ listener_pc' = "idle"
    /\ UNCHANGED <<clock, params, shared, main_vars>>

\* key_events.append({'key': key, 'event': ..., 'time': current_time})
on_event_append ==
    /\ listener_pc = "append"
    /\ key_events' = Append(key_events, pending)
    /\ listener_pc' = "set_last"
    /\ UNCHANGED <<clock, params, stop_event, last_event_time, pending, main_vars>>

\* last_event_time = current_time; on_press returns, on_release goes on to
\* its Escape test
on_event_set_last ==
    /\ listener_pc = "set_last"
    /\ last_event_time' = pending.time
    /\ IF pending.event = "release" /\ is_stop_key(pending.key)
       THEN /\ listener_pc' = "set_stop"
            /\ UNCHANGED pending
       ELSE /\ listener_pc' = "idle"
            /\ pending' = NoPending
    /\ UNCHANGED <<clock, params, key_events, stop_event, main_vars>>

\* stop_event.set(); return False
on_release_stop ==
    /\ listener_pc = "set_stop"
    /\ stop_event' = TRUE
    /\ listener_pc' = "stopped"
    /\ pending' = NoPending
    /\ UNCHANGED <<clock, params, key_events, last_event_time, main_vars>>

\* ---------------------------------------------------------------- main thread
\* while not stop_event.is_set(): a new tick is begun only below the time
\* bound and the sample bound; after the loop, if results: pd.DataFrame(results).to_csv(...)
main_check ==
    /\ main_pc = "check"
    /\ IF loop_continues(stop_event)
       THEN /\ clock < MaxTime
            /\ Len(results) < MaxResults
            /\ main_pc' = "now"
            /\ UNCHANGED artifact
       ELSE /\ main_pc' = "done"
            /\ artifact' = IF should_save(results)
                           THEN [written |-> TRUE, rows |-> results]
                           ELSE NoArtifact
    /\ UNCHANGED <<clock, params, shared, listener_vars, current_time,
                   window_events, results, sleep_until, emit_history,
                   sleeps_after_stop>>

\* current_time = time.time(); window_start = current_time - width
main_now ==
    /\ main_pc = "now"
    /\ current_time' = clock
    /\ main_pc' = "slice"
    /\ UNCHANGED <<clock, params, shared, listener_vars, window_events, results,
                   sleep_until, artifact, emit_history, sleeps_after_stop>>

\* window_events = [event for event in key_events if ...]
main_slice ==
    /\ main_pc = "slice"
    /\ window_events' = select_window(key_events, current_time, width)
    /\ main_pc' = "decide"
    /\ UNCHANGED <<clock, params, shared, listener_vars, current_time, results,
                   sleep_until, artifact, emit_history, sleeps_after_stop>>

\* time.sleep(secs) raises ValueError for a negative length
sleep_raises(secs) == secs < 0

sleep_end_at_once(now, secs) == now

\* the earliest time at which a time.sleep(secs) entered at now returns
sleep_end(now, secs) == now + secs

\* time.sleep(hop) is entered: it ends hop seconds from now at the earliest,
\* or raises, which leaves the loop for the except clause of main;
\* window_events is dead from here on
enter_sleep ==
    IF sleep_raises(hop)
    THEN /\ main_pc' = "crashed"
         /\ UNCHANGED <<sleep_until, sleeps_after_stop>>
    ELSE /\ sleep_until' = sleep_end(clock, hop)
         /\ main_pc' = "sleeping"
         /\ sleeps_after_stop' =
               IF stop_event THEN sleeps_after_stop + 1 ELSE sleeps_after_stop

\* if window_events and (current_time - last_event_time <= 3): a TypeError
\* leaves the loop for the except clause of main, a false test goes on to
\* time.sleep(hop)
main_decide ==
    /\ main_pc = "decide"
    /\ IF decide_raises(window_events, last_event_time)
       THEN /\ main_pc' = "crashed"
            /\ UNCHANGED <<sleep_until, sleeps_after_stop>>
       ELSE IF should_emit(window_events, current_time, last_event_time)
       THEN /\ main_pc' = "emit"
            /\ UNCHANGED <<sleep_until, sleeps_after_stop>>
       ELSE enter_sleep
    /\ window_events' = (IF main_pc' = "sleeping" THEN <<>> ELSE window_events)
    /\ UNCHANGED <<clock, params, shared, listener_vars, current_time, results,
                   artifact, emit_history>>

\* metrics = compute_metrics(window_events); if metrics: results.append({...});
\* then time.sleep(hop)
main_emit ==
    /\ main_pc = "emit"
    /\ LET metrics == compute_metrics(window_events)
       IN IF metrics # NoMetrics
          THEN /\ results' = Append(results,
                     [timestamp |-> clock,
                      avg_dwell_time |-> metrics.avg_dwell_time,
                      avg_flight_time |-> metrics.avg_flight_time,
                      error_ratio |-> metrics.error_ratio])
               /\ emit_history' = Append(emit_history,
                     [now |-> current_time, stopped |-> stop_event])
          ELSE UNCHANGED <<results, emit_history>>
    /\ enter_sleep
    /\ window_events' = <<>>
    /\ UNCHANGED <<clock, params, shared, listener_vars, current_time, artifact>>

\* time.sleep(hop) returns after at least hop seconds; current_time of the
\* finished tick is dead
main_wake ==
    /\ main_pc = "sleeping"
    /\ clock >= sleep_until
    /\ sleep_until' = None
    /\ current_time' = None
    /\ main_pc' = "check"
    /\ UNCHANGED <<clock, params, shared, listener_vars, window_events, results,
                   artifact, emit_history, sleeps_after_stop>>

\* ---------------------------------------------------------------- specification
ListenerStep ==
    \/ on_event_return
    \/ on_event_append
    \/ on_event_set_last
    \/ on_release_stop

MainStep ==
    \/ main_check
    \/ main_now
    \/ main_slice
    \/ main_decide
    \/ main_emit
    \/ main_wake

Deliver == \E input \in Inputs : on_event(input[1], input[2])

Next ==
    \/ Tick
    \/ start_listener
    \/ start_listener_fails
    \/ Deliver
    \/ on_event_return
    \/ on_event_append
    \/ on_event_set_last
    \/ on_release_stop
    \/ main_check
    \/ main_now
    \/ main_slice
    \/ main_decide
    \/ main_emit
    \/ main_wake

Spec == Init /\ [][Next]_vars

\* both threads keep being scheduled and time keeps passing; key presses
\* themselves are never forced
\* a session started with a width or a hop that is not positive
InvalidSpec == InvalidInit /\ [][Next]_vars

LiveSpec ==
    /\ LiveInit
    /\ [][Next]_vars
    /\ WF_vars(ListenerStep)
    /\ WF_vars(MainStep)
    /\ WF_vars(Tick)

\* ---------------------------------------------------------------- generator runs
\* python user_data_generator.py with the call at the end of the script set to
\* args; a pair of runs is followed
generate(args) ==
    /\ Len(gen_runs) <= 1
    /\ gen_runs' = Append(gen_runs, generate_typing_data(args, clock))
    /\ UNCHANGED <<clock, width, hop, event_budget, shared, listener_vars,
                   main_vars, metrics_call>>

Generate == \E args \in GenInputs : generate(args)

GenNext ==
    \/ Tick
    \/ Generate

GenSpec == GenInit /\ [][GenNext]_vars

\* ---------------------------------------------------------------- compute_metrics calls
\* compute_metrics returns; samples keeps its locals dwell_times and
\* flight_times as they are at the return
metrics_return ==
    /\ metrics_call.pc = "called"
    /\ metrics_call' =
          [pc |-> "returned", slice |-> metrics_call.slice,
           result |-> compute_metrics(metrics_call.slice),
           samples |->
               LET s == walk(metrics_call.slice, Len(metrics_call.slice))
               IN [dwell_times |-> s.dwell_times,
                   flight_times |-> s.flight_times]]
    /\ UNCHANGED <<clock, width, hop, event_budget, shared, listener_vars,
                   main_vars, gen_runs>>

MetricsNext == metrics_return

MetricsSpec == MetricsInit /\ [][MetricsNext]_vars

\* ---------------------------------------------------------------- properties
LoopLeft == main_pc \in {"done", "crashed"}
IsEscRelease(event) == event.key = "esc" /\ event.event = "release"
SamplesAfterStop == Cardinality({i \in DOMAIN emit_history : emit_history[i].stopped})

\* C1: a tick appends a sample exactly when the transitions logged in
\* [now - width, now] are not empty and now - last_event_time <= 3; in every
\* other case the tick leaves results as it was.
C1_EmitIffSliceAndRecent ==
    [][ /\ (main_pc = "slice" /\ main_pc' = "decide") =>
              (window_events' # <<>> <=>
                  \E i \in DOMAIN key_events :
                      /\ current_time - width <= key_events[i].time
                      /\ key_events[i].time <= current_time)
        /\ (main_pc = "decide" /\ main_pc' # "decide") =>
              (main_pc' = "emit" <=>
                  /\ window_events # <<>>
                  /\ last_event_time # None
                  /\ current_time - last_event_time <= 3)
        /\ (main_pc = "emit" /\ main_pc' # "emit") => Len(results') = Len(results) + 1
        /\ main_pc # "emit" => results' = results ]_vars

\* a tick has emitted at exactly 3 seconds after the last transition
C1_Witness ==
    /\ main_pc = "sleeping"
    /\ emit_history # <<>>
    /\ emit_history[Len(emit_history)].now = current_time
    /\ current_time - last_event_time = 3

\* C2 as stated: between two consecutive logged transitions more than 3
\* seconds apart, no tick whose now lies strictly between them emits a sample.
C2_NoSampleInsideGap ==
    \A i \in 1..(Len(key_events) - 1) :
        key_events[i + 1].time - key_events[i].time > 3 =>
            \A j \in DOMAIN emit_history :
                ~(key_events[i].time < emit_history[j].now
                  /\ emit_history[j].now < key_events[i + 1].time)

\* C2 amended: a tick whose now is more than 3 seconds after the newest logged
\* transition, deciding before any later transition is logged, emits no sample.
C2_NoSampleAfterPause ==
    [][ (/\ main_pc = "decide"
         /\ main_pc' # "decide"
         /\ key_events # <<>>
         /\ current_time - key_events[Len(key_events)].time > 3)
        => (main_pc' # "emit" /\ results' = results) ]_vars

\* after emitting ticks, a tick whose window still held the last transition
\* went to sleep without a sample, more than 3 seconds into the pause
C2_Witness ==
    /\ main_pc = "sleeping"
    /\ listener_pc = "idle"
    /\ key_events # <<>>
    /\ current_time - key_events[Len(key_events)].time > 3
    /\ current_time - key_events[Len(key_events)].time <= width
    /\ emit_history # <<>>
    /\ \A j \in DOMAIN emit_history : emit_history[j].now # current_time

\* C3: the stop flag is set only by a logged Release of Escape, that Release is
\* the last transition of the log, and once the flag is set the log is frozen.
C3_EscapeStopsCapture ==
    /\ [](\A i \in DOMAIN key_events :
            IsEscRelease(key_events[i]) => i = Len(key_events))
    /\ [](stop_event =>
            key_events # <<>> /\ IsEscRelease(key_events[Len(key_events)]))
    /\ [][stop_event => key_events' = key_events]_vars

\* the flag is set after an Escape Release while the log still had room
C3_Witness ==
    /\ stop_event
    /\ listener_pc = "stopped"
    /\ Len(key_events) < event_budget
    /\ IsEscRelease(key_events[Len(key_events)])

\* C4: with the stop flag set the stop check leaves the loop, nothing is
\* appended to results once the loop is left, and at most one sample is
\* appended after the flag was set.
C4_StopEndsEmission ==
    /\ [](SamplesAfterStop <= 1)
    /\ [][ /\ (main_pc = "check" /\ stop_event /\ main_pc' # "check") => main_pc' = "done"
           /\ LoopLeft => results' = results ]_vars

\* the loop has ended and one sample was appended after the flag was set
C4_Witness == main_pc = "done" /\ SamplesAfterStop = 1

\* C5: once an Escape Release has entered on_release the loop is eventually
\* left; at most one sleep is begun after the flag is set; the loop is left
\* normally only with the flag set.
C5_ShutdownLiveness ==
    /\ (listener_pc = "append" /\ IsEscRelease(pending)) ~> LoopLeft
    /\ [](sleeps_after_stop <= 1)
    /\ [](main_pc = "done" => stop_event)

\* the loop ended normally after one more sleep begun with the flag set
C5_Witness == main_pc = "done" /\ stop_event /\ sleeps_after_stop = 1

\* C6: after the loop the file is written exactly when results is not empty
\* and then holds results in order; no file exists before, nor after an
\* aborted loop.
C6_ArtifactIffSamples ==
    /\ main_pc = "done" =>
          /\ artifact.written <=> results # <<>>
          /\ artifact.rows = results
    /\ main_pc # "done" => artifact = NoArtifact

\* a session that ended with two samples written in order
C6_Witness ==
    /\ main_pc = "done"
    /\ artifact.written
    /\ Len(artifact.rows) = 2
    /\ artifact.rows = results

\* C7: while a callback runs for a key of the ignored set the log, the
\* last-activity time and the stop flag do not change, and no logged or
\* selected transition has an ignored key.
C7_IgnoredKeysDropped ==
    /\ [](\A i \in DOMAIN key_events : key_events[i].key \notin IGNORED_KEYS)
    /\ [](\A i \in DOMAIN window_events : window_events[i].key \notin IGNORED_KEYS)
    /\ [][pending.key \in IGNORED_KEYS =>
            UNCHANGED <<key_events, last_event_time, stop_event>>]_vars

\* a modifier callback is running while the log already holds a transition
C7_Witness ==
    /\ listener_pc = "return"
    /\ pending.key = "shift"
    /\ key_events # <<>>
    /\ results # <<>>

\* C8: a tick that selected a non-empty slice reads a last-activity time that
\* is set and not older than the newest transition of the slice.
C8_LastActivityCoversSlice ==
    [][ (main_pc = "decide" /\ main_pc' # "decide" /\ window_events # <<>>) =>
            /\ last_event_time # None
            /\ last_event_time >= window_events[Len(window_events)].time ]_vars

\* C9: the loop is never left before the stop flag is set, and what was
\* appended to results is in the file once main has ended.
C9_TickErrorsContained ==
    /\ LoopLeft => stop_event
    /\ (main_pc \in {"done", "crashed"} /\ results # <<>>) =>
          (artifact.written /\ artifact.rows = results)

\* C10: once attaching the listener has failed the loop begins no further
\* tick, and nothing is emitted or written.
C10_StartupFailureAborts ==
    /\ [][listener_pc = "failed" => main_pc' # "now"]_vars
    /\ [](listener_pc = "failed" => results = <<>> /\ artifact = NoArtifact)

\* ---------------------------------------------------------------- parameters
\* C11: a session started with a width or a hop that is not positive is
\* rejected at startup: the listener never attaches, no tick is begun, and no
\* transition or sample is ever recorded
C11_InvalidParamsRejected ==
    (width <= 0 \/ hop <= 0) =>
        /\ listener_pc = "starting"
        /\ main_pc = "check"
        /\ key_events = <<>>
        /\ results = <<>>

\* ---------------------------------------------------------------- generator
\* C12: a call of generate_typing_data with an accuracy of 1.0 or more fails
\* with an InvalidParameter error before any interval is generated; it never
\* divides by zero and never ends with zero error intervals
C12_AccuracyDomainRejected ==
    \A k \in DOMAIN gen_runs :
        gen_runs[k].args[2] >= AccDen =>
            /\ gen_runs[k].error = "InvalidParameter"
            /\ gen_runs[k].key_press_data = <<>>
            /\ ~gen_runs[k].saved

\* C13: two calls of generate_typing_data with the same arguments (and the
\* same seed) produce the same rows in every column, the timestamp included,
\* whenever the two calls are made
C13_GeneratorDeterministic ==
    \A j, k \in DOMAIN gen_runs :
        gen_runs[j].args = gen_runs[k].args =>
            /\ gen_runs[j].error = gen_runs[k].error
            /\ gen_runs[j].rows = gen_runs[k].rows

\* ---------------------------------------------------------------- metrics
\* the slice of metrics_call and, once compute_metrics has returned, its result
Returned == metrics_call.pc = "returned"
TheSlice == metrics_call.slice
TheResult == metrics_call.result
TheSamples == metrics_call.samples

\* timestamps as a single producer appends them: they never decrease
NonDecreasing(s) == \A i, j \in DOMAIN s : i < j => s[i].time <= s[j].time

\* the press a transition at position i is paired with: the latest press
\* before it, 0 if there is none
LastPressBefore(s, i) ==
    LET before == {j \in 1..(i - 1) : s[j].event = "press"}
    IN IF before = {} THEN 0
       ELSE CHOOSE j \in before : \A k \in before : k <= j

\* positions of the releases (dwell) and presses (flight) that have a press
\* before them, and the time from that press
DwellPairs(s) ==
    {i \in DOMAIN s : s[i].event = "release" /\ LastPressBefore(s, i) # 0}
FlightPairs(s) ==
    {i \in DOMAIN s : s[i].event = "press" /\ LastPressBefore(s, i) # 0}
PairDuration(s, i) == s[i].time - s[LastPressBefore(s, i)].time

\* the k-th smallest member of a set of positions
Nth(S, k) == CHOOSE i \in S : Cardinality({j \in S : j < i}) = k - 1

\* C14: for every non-empty slice the error_ratio that compute_metrics
\* returns is the number of transitions of the slice, presses and releases
\* alike, whose key is Backspace, Delete or an arrow key, divided by the
\* number of transitions of the slice; it lies between 0 and 1, and one
\* Backspace press among ten transitions gives 1/10
C14_ErrorRatio ==
    (Returned /\ TheSlice # <<>>) =>
        LET errors == {i \in DOMAIN TheSlice : TheSlice[i].key \in
                          {"backspace", "delete", "left", "right", "up", "down"}}
        IN /\ TheResult.error_ratio = <<Cardinality(errors), Len(TheSlice)>>
           /\ 0 <= TheResult.error_ratio[1]
           /\ TheResult.error_ratio[1] <= TheResult.error_ratio[2]
           /\ TheSlice = OneErrorInTen => TheResult.error_ratio = <<1, 10>>

C14_Witness ==
    /\ Returned
    /\ TheSlice = OneErrorInTen
    /\ TheResult.error_ratio = <<1, 10>>

\* C15: compute_metrics returns None, never a tuple of numbers, for an empty
\* slice; a tick whose slice is empty, also one that runs before any
\* transition was captured (last_event_time unset), appends no sample and
\* raises no error: it goes on to its sleep
C15_EmptySliceNoSample ==
    /\ [](compute_metrics(<<>>) = NoMetrics)
    /\ [][(main_pc = "decide" /\ window_events = <<>>) =>
             /\ main_pc' \in {"decide", "sleeping"}
             /\ results' = results
             /\ emit_history' = emit_history]_vars

C15_Witness ==
    /\ main_pc = "sleeping"
    /\ current_time # None
    /\ key_events = <<>>
    /\ last_event_time = None
    /\ results = <<>>

\* ---------------------------------------------------------------- samples
\* C16: a tick appends at most one sample, samples are appended in the order
\* of the ticks, and the timestamps of the samples increase strictly in the
\* order in which they were appended
C16_SamplesInTickOrder ==
    /\ [](/\ Len(emit_history) = Len(results)
          /\ \A i, j \in DOMAIN results :
                i < j => /\ results[i].timestamp < results[j].timestamp
                         /\ emit_history[i].now < emit_history[j].now)
    /\ [][\/ results' = results
          \/ /\ main_pc = "emit"
             /\ main_pc' # "emit"
             /\ Len(results') = Len(results) + 1
             /\ SubSeq(results', 1, Len(results)) = results
             /\ results'[Len(results')].timestamp >= current_time]_vars

C16_Witness ==
    /\ Len(results) = 2
    /\ results[1].timestamp < results[2].timestamp
    /\ emit_history[1].now < emit_history[2].now

C18_SequentialPairing ==
    Returned =>
        LET s == TheSlice
            presses == {i \in DOMAIN s : s[i].event = "press"}
            dwell == DwellPairs(s)
            flight == FlightPairs(s)
        IN /\ Len(TheSamples.flight_times) = Cardinality(flight)
           /\ presses # {} => Len(TheSamples.flight_times) = Cardinality(presses) - 1
           /\ presses = {} => TheSamples.flight_times = <<>> /\ TheSamples.dwell_times = <<>>
           /\ Len(TheSamples.dwell_times) = Cardinality(dwell)
           /\ \A k \in DOMAIN TheSamples.flight_times :
                 TheSamples.flight_times[k] = PairDuration(s, Nth(flight, k))
           /\ \A k \in DOMAIN TheSamples.dwell_times :
                 TheSamples.dwell_times[k] = PairDuration(s, Nth(dwell, k))
           /\ (Len(s) = 2 /\ s[1].event = "press" /\ s[2].event = "release") =>
                 TheSamples.dwell_times = <<s[2].time - s[1].time>>
           /\ s # <<>> =>
                 /\ TheResult.avg_dwell_time = average(TheSamples.dwell_times)
                 /\ TheResult.avg_flight_time = average(TheSamples.flight_times)

C18_Witness ==
    /\ Returned
    /\ Len(TheSlice) = 3
    /\ TheSlice[1] = [key |-> "a", event |-> "press", time |-> 0]
    /\ TheSlice[2] = [key |-> "backspace", event |-> "press", time |-> 1]
    /\ TheSlice[3] = [key |-> "a", event |-> "release", time |-> 2]
    /\ TheSamples.flight_times = <<1>>
    /\ TheSamples.dwell_times = <<1>>

\* ---------------------------------------------------------------- generator windows
\* C19: over the N = typing_duration intervals the generator emits one row
\* for each window start i = 0, hop, 2 * hop, ... with i + width <= N and no
\* other row (none when N < width); the row of start i averages exactly the
\* intervals i .. i + width - 1 and its timestamp is the start of the run
\* plus i seconds
C19_GeneratorWindows ==
    \A r \in DOMAIN gen_runs :
        LET run == gen_runs[r]
            N == run.typing_duration
            w == run.args[4]
            h == run.args[5]
            data == run.key_press_data
            starts == {i \in 0..(N - w) : i % h = 0}
            mean(i, f(_)) == round_div(Sum([j \in 1..w |-> f(data[i + j])]), w)
        IN run.error = "none" =>
              /\ Len(run.rows) = Cardinality(starts)
              /\ N < w => run.rows = <<>>
              /\ \A k \in DOMAIN run.rows :
                    LET i == (k - 1) * h
                        row == run.rows[k]
                    IN /\ i \in starts
                       /\ row.timestamp = run.start_time + i
                       /\ row.avg_dwell_time =
                             mean(i, LAMBDA d : d.avg_dwell_time)
                       /\ row.avg_flight_time =
                             mean(i, LAMBDA d : d.avg_flight_time)
                       /\ row.error_ratio =
                             mean(i, LAMBDA d : d.error * (Unit \div AccDen))

C19_Witness ==
    \E r \in DOMAIN gen_runs :
        /\ gen_runs[r].args = <<40, 9, 8, 5, 2>>
        /\ gen_runs[r].start_time = 1
        /\ Len(gen_runs[r].rows) = 4
        /\ gen_runs[r].rows[4].timestamp = 7

\* C20: for every call within the domain (wpm > 0, num_words > 0,
\* 0 <= accuracy < 1) the stride int(total_intervals / (num_words * (1 -
\* accuracy))) is a positive integer, so that the selection of the error
\* intervals never fails and flags interval 0 when there is an interval; the
\* call generate_typing_data(60, 0.7, 150, 5, 1) raises no error, has a
\* typing_duration of 150 and yields rows
C20_StridePositive ==
    \A r \in DOMAIN gen_runs :
        LET run == gen_runs[r]
        IN (run.args[1] > 0 /\ run.args[3] > 0
                /\ 0 <= run.args[2] /\ run.args[2] < AccDen) =>
              /\ run.error = "none"
              /\ run.stride > 0
              /\ run.typing_duration > 0 => 0 \in run.error_intervals
              /\ run.args = <<60, 7, 150, 5, 1>> =>
                    run.typing_duration = 150 /\ run.rows # <<>>

====
